---- MODULE Spec2Model ----
(***************************************************************************)
(* The car store of src/main.go: five gin handlers (getAllCars, addCar,    *)
(* getCarByID, updateCar, deleteCar) over one MongoDB collection.          *)
(*                                                                         *)
(* A handler is modelled in the steps its code has: the entry (the         *)
(* deadline is created, the path id and the body are parsed, a 400 is      *)
(* answered), the storage call (atomic in the collection, its outcome      *)
(* mapped to the response by the same step), and the return (the deferred  *)
(* cancel).  Spec runs one request at a time over the full input sets;     *)
(* SpecConc interleaves the handlers of NumProcs requests on one id.       *)
(*                                                                         *)
(* Scaling: an ObjectID is IdLen hex digits (24 in the driver) over the    *)
(* digits of HexDigits; a path parameter is a sequence of characters.      *)
(***************************************************************************)
EXTENDS Integers, Sequences, FiniteSets, TLC

\* ---------------------------------------------------------------- bounds

NumProcs == 2
MaxYear == 2

\* Number of hex digits of an ObjectID (24 in the driver, scaled).
IdLen == 1

Procs == 1..NumProcs

\* The hex digits the inputs use, each with its value.
HexDigits == {"0", "1", "2"}

\* The characters of a path parameter or of a body's "id" string.
Chars == HexDigits \cup {"g"}

\* The storage outcomes of one call: it completes; it fails before it is
\* applied; the 10 s deadline of createTimeout expires while the reply is
\* awaited, the operation having been applied by the collection.
Faults == {"none", "unavailable", "deadline"}

\* ------------------------------------------------------------ the entity

\* The zero value of the non-id fields (what an omitted JSON field decodes to).
ZeroFields == [make |-> "", model |-> "", year |-> 0, price |-> 0]

NilObjectID == 0

HexDigitValue(ch) == CASE ch = "0" -> 0 [] ch = "1" -> 1 [] ch = "2" -> 2

HexDigitChar(n) == CASE n = 0 -> "0" [] n = 1 -> "1" [] n = 2 -> "2"

RECURSIVE HexDecode(_)
HexDecode(s) ==
    IF s = <<>> THEN 0
    ELSE 16 * HexDecode(SubSeq(s, 1, Len(s) - 1)) + HexDigitValue(s[Len(s)])

RECURSIVE HexEncode(_, _)
HexEncode(n, len) ==
    IF len = 0 THEN <<>>
    ELSE Append(HexEncode(n \div 16, len - 1), HexDigitChar(n % 16))

\* primitive.ObjectIDFromHex: the length must be IdLen and every character a
\* hex digit; on an error the id returned is NilObjectID.
ObjectIDFromHex(s) ==
    IF Len(s) = IdLen /\ \A k \in 1..Len(s) : s[k] \in HexDigits
    THEN [err |-> FALSE, id |-> HexDecode(s)]
    ELSE [err |-> TRUE, id |-> NilObjectID]

\* ObjectID.Hex, the JSON encoding of Car.ID.
Hex(id) == HexEncode(id, IdLen)

\* The strings a request carries as an id: every string of at most IdLen
\* characters, and one that is too long.
IdStrings ==
    UNION {[1..n -> Chars] : n \in 0..IdLen} \cup {[k \in 1..(IdLen + 1) |-> "1"]}

ObjectIDs == {ObjectIDFromHex(s).id : s \in IdStrings}

\* A value of the Go struct Car.
MkCar(id, f) ==
    [ID |-> id, make |-> f.make, model |-> f.model, year |-> f.year, price |-> f.price]

FieldsOf(r) == [make |-> r.make, model |-> r.model, year |-> r.year, price |-> r.price]

\* The JSON encoding of a Car (json tags of the struct): the id as hex.
CarJSON(car) ==
    [id |-> Hex(car.ID), make |-> car.make, model |-> car.model,
     year |-> car.year, price |-> car.price]

\* The BSON document of a stored car.
Doc(oid, f) ==
    [_id |-> oid, make |-> f.make, model |-> f.model, year |-> f.year, price |-> f.price]

\* Decoding a stored document into a Car (bson tags of the struct).
DocCar(d) == MkCar(d._id, FieldsOf(d))

\* ------------------------------------------------------------- requests

\* The payloads the requests carry: the empty object (every field omitted)
\* and a full car for each year.
Payloads ==
    {ZeroFields} \cup
    {[make |-> "Toyota", model |-> "Corolla", year |-> y, price |-> 1] : y \in 1..MaxYear}

\* A request body: not JSON of the Car shape (valid = FALSE), or an object
\* with or without an "id" string, the other fields as given or omitted.
BadJSON ==
    [valid |-> FALSE, hasId |-> FALSE, id |-> <<>>,
     make |-> "", model |-> "", year |-> 0, price |-> 0]

Body(hasId, id, f) ==
    [valid |-> TRUE, hasId |-> hasId, id |-> id,
     make |-> f.make, model |-> f.model, year |-> f.year, price |-> f.price]

Bodies ==
    {BadJSON} \cup {Body(FALSE, <<>>, f) : f \in Payloads}
              \cup {Body(TRUE, s, f) : s \in IdStrings, f \in Payloads}

\* ObjectID.UnmarshalJSON on the body's "id": absent leaves the zero id, the
\* empty string decodes as NilObjectID, any other string must be IdLen hex
\* digits.
UnmarshalID(b) ==
    IF ~b.hasId \/ b.id = <<>> THEN [err |-> FALSE, id |-> NilObjectID]
    ELSE ObjectIDFromHex(b.id)

\* c.ShouldBindJSON(&car).
ShouldBindJSON(b) ==
    IF ~b.valid \/ UnmarshalID(b).err
    THEN [err |-> TRUE, car |-> MkCar(NilObjectID, ZeroFields)]
    ELSE [err |-> FALSE, car |-> MkCar(UnmarshalID(b).id, FieldsOf(b))]

\* ----------------------------------------------------------- collection

IdsOf(coll) == {d._id : d \in coll}

\* primitive.NewObjectID, called by InsertOne for a document without _id:
\* the process counter gives each call another id.
NewObjectID(counter) == counter + 1

\* The largest id the generator can give in the scaled id space.
MaxObjectID == HexDecode([k \in 1..IdLen |-> "2"])

\* InsertOne with the price lost on the way to the document (a field whose
\* bson tag does not match).
InsertOneDropsPrice(coll, counter, car, fault) ==
    LET oid == IF car.ID = NilObjectID THEN NewObjectID(counter) ELSE car.ID
        doc == [Doc(oid, FieldsOf(car)) EXCEPT !.price = 0]
        dup == oid \in IdsOf(coll)
    IN  [coll |-> IF fault = "unavailable" \/ dup THEN coll ELSE coll \cup {doc},
         err  |-> IF fault # "none" THEN fault
                  ELSE IF dup THEN "duplicate key" ELSE "nil",
         InsertedID |-> oid]

\* collection.InsertOne(ctx, car): _id is omitted when car.ID is zero
\* (omitempty) and generated then; _id is unique in the collection.
InsertOne(coll, counter, car, fault) ==
    LET oid == IF car.ID = NilObjectID THEN NewObjectID(counter) ELSE car.ID
        doc == Doc(oid, FieldsOf(car))
        dup == oid \in IdsOf(coll)
    IN  [coll |-> IF fault = "unavailable" \/ dup THEN coll ELSE coll \cup {doc},
         err  |-> IF fault # "none" THEN fault
                  ELSE IF dup THEN "duplicate key" ELSE "nil",
         InsertedID |-> oid]

\* collection.FindOne(ctx, {_id: id}).Decode(&car).
FindOne(coll, id, fault) ==
    LET hit == {d \in coll : d._id = id}
    IN  IF fault # "none" THEN [err |-> fault, car |-> MkCar(NilObjectID, ZeroFields)]
        ELSE IF hit = {} THEN [err |-> "ErrNoDocuments", car |-> MkCar(NilObjectID, ZeroFields)]
        ELSE [err |-> "nil", car |-> DocCar(CHOOSE d \in hit : TRUE)]

\* UpdateOne that merges: only the non-zero fields of the payload are set.
UpdateOneMerge(coll, id, f, fault) ==
    LET hit == {d \in coll : d._id = id}
        merged(d) ==
            Doc(d._id, [make  |-> IF f.make = "" THEN d.make ELSE f.make,
                        model |-> IF f.model = "" THEN d.model ELSE f.model,
                        year  |-> IF f.year = 0 THEN d.year ELSE f.year,
                        price |-> IF f.price = 0 THEN d.price ELSE f.price])
    IN  [coll |-> IF fault = "unavailable" THEN coll
                  ELSE (coll \ hit) \cup {merged(d) : d \in hit},
         err  |-> IF fault # "none" THEN fault ELSE "nil",
         MatchedCount |-> Cardinality(hit)]

\* UpdateOne with upsert: a document is inserted when none matches.
UpdateOneUpsert(coll, id, f, fault) ==
    LET hit == {d \in coll : d._id = id}
    IN  [coll |-> IF fault = "unavailable" THEN coll
                  ELSE (coll \ hit) \cup {Doc(id, f)},
         err  |-> IF fault # "none" THEN fault ELSE "nil",
         MatchedCount |-> Cardinality(hit)]

\* collection.UpdateOne(ctx, {_id: id}, {$set: {make, model, year, price}}).
UpdateOne(coll, id, f, fault) ==
    LET hit == {d \in coll : d._id = id}
    IN  [coll |-> IF fault = "unavailable" THEN coll
                  ELSE (coll \ hit) \cup {Doc(d._id, f) : d \in hit},
         err  |-> IF fault # "none" THEN fault ELSE "nil",
         MatchedCount |-> Cardinality(hit)]

\* DeleteOne whose filter is lost once a document matches: every document
\* goes.
DeleteOneLosesFilter(coll, id, fault) ==
    LET hit == {d \in coll : d._id = id}
    IN  [coll |-> IF fault = "unavailable" \/ hit = {} THEN coll ELSE {},
         err  |-> IF fault # "none" THEN fault ELSE "nil",
         DeletedCount |-> Cardinality(hit)]

\* collection.DeleteOne(ctx, {_id: id}).
DeleteOne(coll, id, fault) ==
    LET hit == {d \in coll : d._id = id}
    IN  [coll |-> IF fault = "unavailable" THEN coll ELSE coll \ hit,
         err  |-> IF fault # "none" THEN fault ELSE "nil",
         DeletedCount |-> Cardinality(hit)]

\* collection.Find(ctx, {}): the cursor over the documents of the collection.
Find(coll, fault) ==
    [err |-> IF fault # "none" THEN fault ELSE "nil",
     cursor |-> IF fault # "none" THEN {} ELSE coll]

\* cursor.All(ctx, &cars).
CursorAll(cur, fault) ==
    [err |-> IF fault # "none" THEN fault ELSE "nil",
     cars |-> IF fault # "none" THEN {} ELSE {DocCar(d) : d \in cur}]

\* ------------------------------------------------------------------ state

VARIABLES
    store,       \* the documents of the collection "cars"
    oidCounter,  \* the driver's ObjectID counter
    journal,     \* per id as the clients see it, the last write applied under it
    pc,          \* per handler: "idle", "call", "cursor", "responded"
    req,         \* per handler: the request it serves
    cursor,      \* per handler: the cursor Find returned (getAllCars)
    err,         \* per handler: the err of its last storage call
    resp,        \* per handler: the response written with c.JSON / c.Status
    deadlines,   \* per handler: the deadlines created and not yet cancelled
    calls        \* per handler: the storage calls issued for the request

vars == <<store, oidCounter, journal, pc, req, cursor, err, resp, deadlines, calls>>

NoRequest == [op |-> "none", param |-> <<>>, body |-> BadJSON]

Request(op, param, body) == [op |-> op, param |-> param, body |-> body]

NoResponse == [status |-> 0, error |-> "", cars |-> {}]

\* c.JSON(status, gin.H{"error": msg}).
ErrorJSON(status, msg) == [status |-> status, error |-> msg, cars |-> {}]

\* c.JSON(status, car) and c.JSON(status, cars); c.Status(204) has no body.
JSON(status, cars) == [status |-> status, error |-> "", cars |-> {CarJSON(c) : c \in cars}]

\* The journal records, for the history the properties speak of, what the
\* collection last did under an id, the id being the hex string of the
\* responses: nothing known, a create answered 201 for this payload, an update
\* answered 200 for this payload, a removal.
Entry(kind, f) == [kind |-> kind, car |-> f]

WireIds == {Hex(i) : i \in ObjectIDs}

Unwritten == Entry("none", ZeroFields)

Init ==
    /\ store = {}
    /\ oidCounter = 0
    /\ journal = [s \in WireIds |-> Unwritten]
    /\ pc = [p \in Procs |-> "idle"]
    /\ req = [p \in Procs |-> NoRequest]
    /\ cursor = [p \in Procs |-> {}]
    /\ err = [p \in Procs |-> "nil"]
    /\ resp = [p \in Procs |-> NoResponse]
    /\ deadlines = [p \in Procs |-> 0]
    /\ calls = [p \in Procs |-> 0]

\* createTimeout(): one more deadline of 10 s owned by the handler.
createTimeout(p) == deadlines' = [deadlines EXCEPT ![p] = @ + 1]

\* A handler is entered with request r: the deadline is created; when
\* `invalid`, msg is answered with 400, otherwise the storage call is next.
Enter(p, r, invalid, msg) ==
    /\ pc[p] = "idle"
    /\ createTimeout(p)
    /\ req' = [req EXCEPT ![p] = r]
    /\ IF invalid
       THEN /\ pc' = [pc EXCEPT ![p] = "responded"]
            /\ resp' = [resp EXCEPT ![p] = ErrorJSON(400, msg)]
       ELSE /\ pc' = [pc EXCEPT ![p] = "call"]
            /\ resp' = resp
    /\ UNCHANGED <<store, oidCounter, journal, cursor, err, calls>>

\* The handler's storage call has returned e and the handler has answered r.
Answer(p, e, r) ==
    /\ pc' = [pc EXCEPT ![p] = "responded"]
    /\ err' = [err EXCEPT ![p] = e]
    /\ resp' = [resp EXCEPT ![p] = r]
    /\ calls' = [calls EXCEPT ![p] = @ + 1]

\* ---- getAllCars

getAllCarsEnter(p) == Enter(p, Request("getAllCars", <<>>, BadJSON), FALSE, "")

getAllCarsFind(p, fault) ==
    /\ pc[p] = "call" /\ req[p].op = "getAllCars"
    /\ LET r == Find(store, fault)
       IN  IF r.err # "nil"
           THEN /\ Answer(p, r.err, ErrorJSON(500, "Failed to fetch cars"))
                /\ UNCHANGED cursor
           ELSE /\ pc' = [pc EXCEPT ![p] = "cursor"]
                /\ cursor' = [cursor EXCEPT ![p] = r.cursor]
                /\ err' = [err EXCEPT ![p] = r.err]
                /\ calls' = [calls EXCEPT ![p] = @ + 1]
                /\ UNCHANGED resp
    /\ UNCHANGED <<store, oidCounter, journal, req, deadlines>>

getAllCarsAll(p, fault) ==
    /\ pc[p] = "cursor"
    /\ LET r == CursorAll(cursor[p], fault)
       IN  IF r.err # "nil"
           THEN Answer(p, r.err, ErrorJSON(500, "Failed to load cars"))
           ELSE Answer(p, r.err, JSON(200, r.cars))
    /\ UNCHANGED <<store, oidCounter, journal, req, cursor, deadlines>>

\* ---- addCar

addCarEnter(p, body) ==
    Enter(p, Request("addCar", <<>>, body), ShouldBindJSON(body).err, "Invalid car data")

addCarInsert(p, fault) ==
    /\ pc[p] = "call" /\ req[p].op = "addCar"
    /\ LET car == ShouldBindJSON(req[p].body).car
           r == InsertOne(store, oidCounter, car, fault)
           oid == r.InsertedID
       IN  /\ car.ID = NilObjectID => oidCounter < MaxObjectID
           /\ store' = r.coll
           /\ oidCounter' = IF car.ID = NilObjectID THEN oidCounter + 1 ELSE oidCounter
           /\ IF r.err # "nil"
              THEN /\ Answer(p, r.err, ErrorJSON(500, "Failed to add car"))
                   /\ journal' = IF store' # store
                                 THEN [journal EXCEPT ![Hex(oid)] = Unwritten]
                                 ELSE journal
              ELSE /\ Answer(p, r.err, JSON(201, {MkCar(oid, FieldsOf(car))}))
                   /\ journal' = [journal EXCEPT
                                      ![Hex(oid)] = Entry("created", FieldsOf(req[p].body))]
    /\ UNCHANGED <<req, cursor, deadlines>>

\* ---- getCarByID

getCarByIDEnter(p, param) ==
    Enter(p, Request("getCarByID", param, BadJSON), ObjectIDFromHex(param).err, "Invalid car ID")

getCarByIDFind(p, fault) ==
    /\ pc[p] = "call" /\ req[p].op = "getCarByID"
    /\ LET id == ObjectIDFromHex(req[p].param).id
           r == FindOne(store, id, fault)
       IN  IF r.err # "nil"
           THEN Answer(p, r.err, ErrorJSON(404, "Car not found"))
           ELSE Answer(p, r.err, JSON(200, {r.car}))
    /\ UNCHANGED <<store, oidCounter, journal, req, cursor, deadlines>>

\* ---- updateCar

\* updateCar entered without the check of the path id.
updateCarEnterUnchecked(p, param, body) ==
    Enter(p, Request("updateCar", param, body), ShouldBindJSON(body).err, "Invalid car data")

updateCarEnter(p, param, body) ==
    Enter(p, Request("updateCar", param, body),
          ObjectIDFromHex(param).err \/ ShouldBindJSON(body).err,
          IF ObjectIDFromHex(param).err THEN "Invalid car ID" ELSE "Invalid car data")

updateCarUpdate(p, fault) ==
    /\ pc[p] = "call" /\ req[p].op = "updateCar"
    /\ LET id == ObjectIDFromHex(req[p].param).id
           car == ShouldBindJSON(req[p].body).car
           r == UpdateOne(store, id, FieldsOf(car), fault)
       IN  /\ store' = r.coll
           /\ IF r.err # "nil"
              THEN /\ Answer(p, r.err, ErrorJSON(500, "Failed to update car"))
                   /\ journal' = IF store' # store
                                 THEN [journal EXCEPT ![Hex(id)] = Unwritten]
                                 ELSE journal
              ELSE IF r.MatchedCount = 0
              THEN /\ Answer(p, r.err, ErrorJSON(404, "Car not found"))
                   /\ journal' = journal
              ELSE /\ Answer(p, r.err, JSON(200, {MkCar(id, FieldsOf(car))}))
                   /\ journal' = [journal EXCEPT
                                      ![Hex(id)] = Entry("updated", FieldsOf(req[p].body))]
    /\ UNCHANGED <<oidCounter, req, cursor, deadlines>>

\* ---- deleteCar

deleteCarEnter(p, param) ==
    Enter(p, Request("deleteCar", param, BadJSON), ObjectIDFromHex(param).err, "Invalid car ID")

\* deleteCar that does not look at DeletedCount.
deleteCarDeleteIgnoresCount(p, fault) ==
    /\ pc[p] = "call" /\ req[p].op = "deleteCar"
    /\ LET id == ObjectIDFromHex(req[p].param).id
           r == DeleteOne(store, id, fault)
       IN  /\ store' = r.coll
           /\ journal' = IF store' # store
                         THEN [journal EXCEPT ![Hex(id)] = Entry("deleted", ZeroFields)]
                         ELSE journal
           /\ IF r.err # "nil"
              THEN Answer(p, r.err, ErrorJSON(500, "Failed to delete car"))
              ELSE Answer(p, r.err, JSON(204, {}))
    /\ UNCHANGED <<oidCounter, req, cursor, deadlines>>

deleteCarDelete(p, fault) ==
    /\ pc[p] = "call" /\ req[p].op = "deleteCar"
    /\ LET id == ObjectIDFromHex(req[p].param).id
           r == DeleteOne(store, id, fault)
       IN  /\ store' = r.coll
           /\ journal' = IF store' # store
                         THEN [journal EXCEPT ![Hex(id)] = Entry("deleted", ZeroFields)]
                         ELSE journal
           /\ IF r.err # "nil"
              THEN Answer(p, r.err, ErrorJSON(500, "Failed to delete car"))
              ELSE IF r.DeletedCount = 0
              THEN Answer(p, r.err, ErrorJSON(404, "Car not found"))
              ELSE Answer(p, r.err, JSON(204, {}))
    /\ UNCHANGED <<oidCounter, req, cursor, deadlines>>

\* ---- the return of a handler: the deferred cancel() (and cursor.Close)

\* A return whose cancel() is reached on the success paths only.
ReturnCancelsOnSuccess(p) ==
    /\ pc[p] = "responded"
    /\ deadlines' = [deadlines EXCEPT ![p] = IF resp[p].status >= 400 THEN @ ELSE @ - 1]
    /\ pc' = [pc EXCEPT ![p] = "idle"]
    /\ req' = [req EXCEPT ![p] = NoRequest]
    /\ cursor' = [cursor EXCEPT ![p] = {}]
    /\ err' = [err EXCEPT ![p] = "nil"]
    /\ resp' = [resp EXCEPT ![p] = NoResponse]
    /\ calls' = [calls EXCEPT ![p] = 0]
    /\ UNCHANGED <<store, oidCounter, journal>>

Return(p) ==
    /\ pc[p] = "responded"
    /\ deadlines' = [deadlines EXCEPT ![p] = @ - 1]
    /\ pc' = [pc EXCEPT ![p] = "idle"]
    /\ req' = [req EXCEPT ![p] = NoRequest]
    /\ cursor' = [cursor EXCEPT ![p] = {}]
    /\ err' = [err EXCEPT ![p] = "nil"]
    /\ resp' = [resp EXCEPT ![p] = NoResponse]
    /\ calls' = [calls EXCEPT ![p] = 0]
    /\ UNCHANGED <<store, oidCounter, journal>>

\* ---------------------------------------------------------- specifications

\* The storage call of a handler, under any outcome of the storage.
StorageStep(p, faults) ==
    \E fault \in faults :
        \/ getAllCarsFind(p, fault)
        \/ getAllCarsAll(p, fault)
        \/ addCarInsert(p, fault)
        \/ getCarByIDFind(p, fault)
        \/ updateCarUpdate(p, fault)
        \/ deleteCarDelete(p, fault)

\* One request at a time, every request of the input sets.
SeqProcs == {1}

Next ==
    \E p \in SeqProcs :
        \/ getAllCarsEnter(p)
        \/ \E body \in Bodies : addCarEnter(p, body)
        \/ \E param \in IdStrings : getCarByIDEnter(p, param)
        \/ \E param \in IdStrings, body \in Bodies : updateCarEnter(p, param, body)
        \/ \E param \in IdStrings : deleteCarEnter(p, param)
        \/ StorageStep(p, Faults)
        \/ Return(p)

Spec == Init /\ [][Next]_vars

\* Concurrent requests on one id: every handler of Procs may be entered while
\* the others are in flight.
RaceParams == {<<"1">>}

RaceBodies ==
    {Body(TRUE, <<"1">>, f) :
        f \in {ZeroFields, [make |-> "Toyota", model |-> "Corolla", year |-> 1, price |-> 1]}}

\* In a race a storage call completes or outlives its deadline.
RaceFaults == {"none", "deadline"}

NextConc ==
    \E p \in Procs :
        \/ getAllCarsEnter(p)
        \/ \E body \in RaceBodies : addCarEnter(p, body)
        \/ \E param \in RaceParams : getCarByIDEnter(p, param)
        \/ \E param \in RaceParams, body \in RaceBodies : updateCarEnter(p, param, body)
        \/ \E param \in RaceParams : deleteCarEnter(p, param)
        \/ StorageStep(p, RaceFaults)
        \/ Return(p)

SpecConc == Init /\ [][NextConc]_vars

\* ------------------------------------------------------------- properties

\* In this step handler p, serving op, got the result of its storage call
\* and wrote its response.
Called(p, op) == pc[p] \in {"call", "cursor"} /\ req[p].op = op /\ pc'[p] = "responded"

\* In this step handler p was entered with a request.
Entered(p, op) == pc[p] = "idle" /\ pc'[p] # "idle" /\ req'[p].op = op

\* The storage call failed for a reason other than "no record matches".
StorageFailed(e) == e \notin {"nil", "ErrNoDocuments"}

\* A well-formed identifier: IdLen hex digits.
WellFormed(s) == s \in [1..IdLen -> HexDigits]

\* The ids of the stored records, as the clients see them.
StoredIds(coll) == {Hex(d._id) : d \in coll}

\* The JSON of a car with wire id s and fields f.
WireCar(s, f) ==
    [id |-> s, make |-> f.make, model |-> f.model, year |-> f.year, price |-> f.price]

Ops == {"getAllCars", "addCar", "getCarByID", "updateCar", "deleteCar"}

\* C1: in each of the five operations a storage call that fails or times out
\* for a reason other than "no record matches" is answered 500; get-by-id with
\* a well-formed id answers 404 only when no record matches.
C1_StorageFailureIs500 ==
    [][\A p \in Procs : \A op \in Ops :
        Called(p, op) =>
            /\ StorageFailed(err'[p]) => resp'[p].status = 500
            /\ (op = "getCarByID" /\ resp'[p].status = 404)
                   => req[p].param \notin StoredIds(store)]_vars

\* C2: a malformed path id (get-by-id, update, delete) and an undecodable body
\* (create, update) are answered 400, no storage call is issued for the
\* request and the stored records are unchanged; update checks the id first,
\* whatever the body.
C2_MalformedIs400 ==
    [][\A p \in Procs :
        /\ \A op \in {"getCarByID", "updateCar", "deleteCar"} :
               (Entered(p, op) /\ ~WellFormed(req'[p].param)) =>
                   /\ pc'[p] = "responded"
                   /\ resp'[p] = ErrorJSON(400, "Invalid car ID")
                   /\ calls'[p] = 0
                   /\ store' = store
        /\ \A op \in {"addCar", "updateCar"} :
               (Entered(p, op) /\ ShouldBindJSON(req'[p].body).err) =>
                   /\ pc'[p] = "responded"
                   /\ resp'[p].status = 400
                   /\ calls'[p] = 0
                   /\ store' = store
        /\ (pc[p] = "responded" /\ resp[p].status = 400) =>
               /\ calls[p] = 0
               /\ store' = store
               /\ pc'[p] \in {"responded", "idle"}]_vars

\* C2 witness: an update with a malformed id and an undecodable body has been
\* answered 400 "Invalid car ID" while records are stored.
C2_Witness ==
    \E p \in Procs :
        /\ pc[p] = "responded" /\ req[p].op = "updateCar"
        /\ ~WellFormed(req[p].param) /\ ~req[p].body.valid
        /\ resp[p] = ErrorJSON(400, "Invalid car ID")
        /\ calls[p] = 0 /\ store # {}

\* C3: after create(P) answered 201 with id i, and with no update or delete
\* of i since, a get(i) whose storage call does not fail answers 200 with id
\* i and the make, model, year and price of P.
C3_CreateThenGet ==
    [][\A p \in Procs :
        /\ (Called(p, "addCar") /\ resp'[p].status = 201) =>
               \E s \in WireIds :
                   /\ resp'[p].cars = {WireCar(s, FieldsOf(req[p].body))}
                   /\ journal'[s] = Entry("created", FieldsOf(req[p].body))
        /\ (/\ Called(p, "getCarByID")
            /\ journal[req[p].param].kind = "created"
            /\ ~StorageFailed(err'[p])) =>
               resp'[p] = [status |-> 200, error |-> "",
                           cars |-> {WireCar(req[p].param, journal[req[p].param].car)}]]_vars

\* C3 witness: a get has answered 200 for an id whose last write is a create
\* of a payload with non-zero fields.
C3_Witness ==
    \E p \in Procs :
        /\ pc[p] = "responded" /\ req[p].op = "getCarByID"
        /\ resp[p].status = 200
        /\ journal[req[p].param].kind = "created"
        /\ journal[req[p].param].car # ZeroFields

\* C4: an update(i, P2) answered 200 echoes the path id i with the fields of
\* P2, leaves exactly the fields of P2 stored under i (omitted fields zero,
\* nothing of the earlier record) and no other id touched, whatever id P2
\* carries; a later get(i) whose storage call does not fail returns P2.
C4_UpdateOverwrites ==
    [][\A p \in Procs :
        /\ (Called(p, "updateCar") /\ resp'[p].status = 200) =>
               LET i == req[p].param
                   P2 == FieldsOf(req[p].body)
               IN  /\ resp'[p].cars = {WireCar(i, P2)}
                   /\ {CarJSON(DocCar(d)) : d \in {e \in store' : Hex(e._id) = i}}
                          = {WireCar(i, P2)}
                   /\ {d \in store' : Hex(d._id) # i} = {d \in store : Hex(d._id) # i}
                   /\ StoredIds(store') = StoredIds(store)
                   /\ journal'[i] = Entry("updated", P2)
        /\ (/\ Called(p, "getCarByID")
            /\ journal[req[p].param].kind = "updated"
            /\ ~StorageFailed(err'[p])) =>
               resp'[p] = [status |-> 200, error |-> "",
                           cars |-> {WireCar(req[p].param, journal[req[p].param].car)}]]_vars

\* C4 witness: a get has answered 200 with all-zero fields for an id whose
\* last write is an update by the empty payload.
C4_Witness ==
    \E p \in Procs :
        /\ pc[p] = "responded" /\ req[p].op = "getCarByID"
        /\ resp[p] = [status |-> 200, error |-> "",
                      cars |-> {WireCar(req[p].param, ZeroFields)}]
        /\ journal[req[p].param] = Entry("updated", ZeroFields)

\* C5: for a well-formed id that matches no stored record, get, update and
\* delete leave the stored records unchanged under every storage outcome
\* (update never creates a record) and answer 404 when the storage call does
\* not fail.
C5_UnmatchedIs404 ==
    [][\A p \in Procs : \A op \in {"getCarByID", "updateCar", "deleteCar"} :
        (/\ Called(p, op)
         /\ WellFormed(req[p].param)
         /\ req[p].param \notin StoredIds(store)) =>
            /\ store' = store
            /\ ~StorageFailed(err'[p]) => resp'[p] = ErrorJSON(404, "Car not found")]_vars

\* C5 witness: an update of a well-formed id that matches none of the stored
\* records has been answered 404.
C5_Witness ==
    \E p \in Procs :
        /\ pc[p] = "responded" /\ req[p].op = "updateCar"
        /\ WellFormed(req[p].param)
        /\ store # {} /\ req[p].param \notin StoredIds(store)
        /\ FieldsOf(req[p].body) # ZeroFields
        /\ resp[p].status = 404

\* C6: no two stored records share an id, and no create answered 201 stores
\* a record under an id whose record was deleted earlier.
C6_IdsUniqueNeverReused ==
    [][/\ \A d1, d2 \in store' : d1._id = d2._id => d1 = d2
       /\ \A p \in Procs :
              (Called(p, "addCar") /\ resp'[p].status = 201) =>
                  \A c \in resp'[p].cars : journal[c.id].kind # "deleted"]_vars

\* C7: a delete(i) answered 204 removes exactly the record of i and leaves
\* every other record as it was; after it, and until a record is stored under
\* i again, a get(i) whose storage call does not fail answers 404.
C7_DeleteThenGet ==
    [][\A p \in Procs :
        /\ (Called(p, "deleteCar") /\ resp'[p].status = 204) =>
               /\ \E d \in store : Hex(d._id) = req[p].param /\ store' = store \ {d}
               /\ journal'[req[p].param].kind = "deleted"
        /\ (/\ Called(p, "getCarByID")
            /\ journal[req[p].param].kind = "deleted"
            /\ ~StorageFailed(err'[p])) =>
               resp'[p] = ErrorJSON(404, "Car not found")]_vars

\* C7 witness: a get has answered 404 for a deleted id while another record
\* is still stored.
C7_Witness ==
    \E p \in Procs :
        /\ pc[p] = "responded" /\ req[p].op = "getCarByID"
        /\ resp[p].status = 404 /\ err[p] = "ErrNoDocuments"
        /\ journal[req[p].param].kind = "deleted"
        /\ store # {}

\* C8: a list answered 200 returns exactly the stored records; a create
\* answered 201 adds exactly one record, a create answered 400 or 500 adds
\* none, and neither list, get nor update changes the number of records.
C8_ListCountsCreates ==
    [][\A p \in Procs :
        /\ (Called(p, "getAllCars") /\ resp'[p].status = 200) =>
               resp'[p].cars = {CarJSON(DocCar(d)) : d \in store}
        /\ Called(p, "addCar") =>
               IF resp'[p].status = 201
               THEN Cardinality(store') = Cardinality(store) + 1
               ELSE store' = store
        /\ Entered(p, "addCar") => store' = store
        /\ \A op \in {"getAllCars", "getCarByID", "updateCar"} :
               Called(p, op) => Cardinality(store') = Cardinality(store)]_vars

\* C9 (amended): a handler in flight owns exactly one deadline, on every
\* path, and a handler that has returned owns none.
C9_DeadlineReleased ==
    \A p \in Procs :
        /\ pc[p] = "idle" => deadlines[p] = 0
        /\ pc[p] # "idle" => deadlines[p] = 1

\* C9 witness: the handler has returned from a create and from a delete (a
\* record is stored, another was deleted) and owns no deadline.
C9_Witness ==
    /\ \A p \in Procs : pc[p] = "idle" /\ deadlines[p] = 0
    /\ store # {}
    /\ \E s \in WireIds : journal[s].kind = "deleted"

\* C9 as stated: besides the above, the deadline is cancelled as soon as the
\* storage call has returned.
C9_CancelledWhenCallReturns ==
    \A p \in Procs :
        /\ pc[p] = "idle" => deadlines[p] = 0
        /\ calls[p] > 0 => deadlines[p] = 0

\* C10: with every storage operation atomic, a delete(i) answers 204 exactly
\* when its storage call removes the record of i (so a stored record yields
\* one 204, and a delete that finds none answers 404); an update(i, P)
\* answers 200 only if a record of i was stored at its storage call; and no
\* update stores a record under an id that has none, so none is left under i
\* once a delete has taken effect.
C10_RacesOnOneId ==
    [][\A p \in Procs :
        /\ Called(p, "deleteCar") =>
               /\ resp'[p].status = 204 =>
                      /\ req[p].param \in StoredIds(store)
                      /\ req[p].param \notin StoredIds(store')
               /\ ~StorageFailed(err'[p]) =>
                      resp'[p].status =
                          IF req[p].param \in StoredIds(store) THEN 204 ELSE 404
        /\ (Called(p, "updateCar") /\ resp'[p].status = 200) =>
               req[p].param \in StoredIds(store)
        /\ Called(p, "updateCar") => StoredIds(store') = StoredIds(store)
        /\ \A s \in WireIds : journal'[s].kind = "deleted" => s \notin StoredIds(store')]_vars

\* C10 witness: two concurrent deletes of the same id have both been
\* answered without a storage failure, one 204 and the other 404.
C10_Witness ==
    \E p, q \in Procs :
        /\ p # q
        /\ pc[p] = "responded" /\ pc[q] = "responded"
        /\ req[p].op = "deleteCar" /\ req[q].op = "deleteCar"
        /\ req[p].param = req[q].param
        /\ resp[p].status = 204 /\ resp[q].status = 404
        /\ err[p] = "nil" /\ err[q] = "nil"

====
